---- MODULE Spec2Model ----
(***************************************************************************)
(* Model of chatsaver/server.py: the chat completion endpoint of the       *)
(* DeepSeek API server.  A request is handled by chat_completion; a        *)
(* streaming request is answered by the generator generate_stream_response *)
(* which the StreamingResponse consumer resumes chunk by chunk, a          *)
(* non-streaming request by one blocking call of model.create_completion.  *)
(* The inference backend (llama_cpp) is the environment: each call or pull *)
(* returns a value or raises.                                              *)
(***************************************************************************)
EXTENDS Integers, Sequences, FiniteSets, TLC

VARIABLES request, pc, out, pulled, choice, failure, resp, disc, calls, locals, now, health

vars == <<request, pc, out, pulled, choice, failure, resp, disc, calls, locals, now, health>>

----------------------------------------------------------------------------
(* Bounds *)

NumReqs == 2        \* requests handled concurrently by the server
MaxPulls == 2       \* events one generation sequence yields at most
MaxTokens == 2      \* largest token count the backend reports
MaxMsgs == 2        \* messages of one request at most
MaxClock == 1       \* seconds the clock advances at most

Reqs == 1..NumReqs
FramerReqs == {1}

None == "None"

----------------------------------------------------------------------------
(* Requests and the prompt *)

MODEL_PATH == <<"models", "deepseek-llm-7b-chat.Q4_K_M.gguf">>

\* os.path.basename
basename(path) == path[Len(path)]

Roles == {"system", "user", "assistant", "tool"}
Contents == {"x", "y"}
ChatMessages == [role : Roles, content : Contents]

\* every message list up to MaxMsgs messages, with either flag
AllBodies ==
    {[messages |-> m, stream |-> FALSE, enable_chain_of_thought |-> c] :
        m \in UNION {[1..n -> ChatMessages] : n \in 0..MaxMsgs}, c \in BOOLEAN}

\* the request bodies used while the handlers are explored
Bodies ==
    {[messages |-> <<>>, stream |-> FALSE, enable_chain_of_thought |-> FALSE],
     [messages |-> <<[role |-> "user", content |-> "x"]>>, stream |-> FALSE,
      enable_chain_of_thought |-> TRUE]}

SrvBodies ==
    {[messages |-> <<[role |-> "user", content |-> "x"]>>, stream |-> FALSE,
      enable_chain_of_thought |-> FALSE]}

\* the role chain ending in a plain `else` that treats the message as a user's
prompt_block_else(message) ==
    IF message.role = "system" THEN <<"<|system|>\n", message.content, "</s>\n">>
    ELSE IF message.role = "assistant" THEN <<"<|assistant|>\n", message.content, "</s>\n">>
    ELSE <<"<|user|>\n", message.content, "</s>\n">>

\* the text one message adds to the prompt, as a sequence of pieces
prompt_block(message) ==
    IF message.role = "system" THEN <<"<|system|>\n", message.content, "</s>\n">>
    ELSE IF message.role = "user" THEN <<"<|user|>\n", message.content, "</s>\n">>
    ELSE IF message.role = "assistant" THEN <<"<|assistant|>\n", message.content, "</s>\n">>
    ELSE <<>>

\* the loop `for message in messages` over the prompt built so far
RECURSIVE prompt_loop(_, _)
prompt_loop(prompt, messages) ==
    IF messages = <<>> THEN prompt
    ELSE prompt_loop(prompt \o prompt_block(Head(messages)), Tail(messages))

\* the builder returning early, with nothing, for an empty message list
create_prompt_guard(messages, enable_cot) ==
    IF messages = <<>> THEN <<>>
    ELSE LET prompt == prompt_loop(<<>>, messages) \o <<"<|assistant|>\n">>
         IN  IF enable_cot THEN prompt \o <<"Let me think.\n\n">> ELSE prompt

\* the builder adding the priming phrase before the assistant tag
create_prompt_cotfirst(messages, enable_cot) ==
    LET prompt == prompt_loop(<<>>, messages)
    IN  IF enable_cot THEN prompt \o <<"Let me think.\n\n", "<|assistant|>\n">>
        ELSE prompt \o <<"<|assistant|>\n">>

create_prompt(messages, enable_cot) ==
    LET prompt == prompt_loop(<<>>, messages) \o <<"<|assistant|>\n">>
    IN  IF enable_cot THEN prompt \o <<"Let me think.\n\n">> ELSE prompt

\* the pieces a prompt is made of, numbered
Pieces == <<"<|system|>\n", "<|user|>\n", "<|assistant|>\n", "</s>\n",
            "Let me think.\n\n", "x", "y">>

PieceCode(piece) == CHOOSE i \in 1..Len(Pieces) : Pieces[i] = piece

\* hash(prompt) & mask: a fixed function of the prompt within one process;
\* the mask is 16 bits wide here
RECURSIVE hash(_)
hash(prompt) ==
    IF prompt = <<>> THEN 7
    ELSE (31 * hash(SubSeq(prompt, 1, Len(prompt) - 1)) + PieceCode(prompt[Len(prompt)]))
            % (2 ^ 16)

\* f"chatcmpl-{hash(prompt) & 0xffffffff:08x}"
completion_id(prompt) == <<"chatcmpl-", hash(prompt)>>

----------------------------------------------------------------------------
(* Values exchanged with the backend *)

Texts == {<<>>, <<"a">>, <<"b">>}
Finishes == {None, "stop", "length"}
Msgs == {"out of memory", "bad stop"}

\* choices[0] of a streamed chunk: the keys "text" and "finish_reason" may
\* each be absent.
Choices ==
    {[index |-> 0]}
    \cup {[index |-> 0, text |-> t] : t \in Texts}
    \cup {[index |-> 0, finish_reason |-> f] : f \in Finishes}
    \cup {[index |-> 0, text |-> t, finish_reason |-> f] : t \in Texts, f \in Finishes}

\* the chunks the generation sequence can yield
Events ==
    {[object |-> "text_completion"], [object |-> "text_completion", choices |-> <<>>]}
    \cup {[object |-> "text_completion", choices |-> <<c>>] : c \in Choices}

\* the chunks used when several requests run side by side
SrvEvents ==
    {[object |-> "text_completion", choices |-> <<>>],
     [object |-> "text_completion", choices |-> <<[index |-> 0, text |-> <<"a">>]>>],
     [object |-> "text_completion",
      choices |-> <<[index |-> 0, text |-> <<"b">>, finish_reason |-> "stop"]>>]}

\* results of a non-streaming create_completion; llama_cpp reports
\* total_tokens as the sum of the two other counts
CompletionTexts == {<<>>, <<"a">>, <<" ", "a", " ">>}

Completions ==
    {[choices |-> <<[text |-> t, finish_reason |-> f]>>,
      usage |-> [prompt_tokens |-> p, completion_tokens |-> c, total_tokens |-> p + c]] :
        t \in CompletionTexts, f \in {"stop", "length"},
        p \in 1..MaxTokens, c \in 0..MaxTokens}

SrvCompletions ==
    {k \in Completions : k.choices[1].text = <<"a">> /\ k.choices[1].finish_reason = "stop"
                         /\ k.usage.prompt_tokens = 1 /\ k.usage.completion_tokens = 1}

----------------------------------------------------------------------------
(* Python helpers *)

\* dict.get(key): None when the key is absent
Get(d, key) == IF key \in DOMAIN d THEN d[key] ELSE None

\* truth value of a finish_reason (None and "" are falsy)
Truthy(v) == v # None /\ v # ""

\* the emptiness test left out: any chunk with a "text" key is forwarded
HasText_key(c) == "text" \in DOMAIN c

\* "text" in choice and choice["text"]
HasText(c) == "text" \in DOMAIN c /\ Len(c["text"]) > 0

\* "choices" in chunk and len(chunk["choices"]) > 0
HasChoices(ev) == "choices" \in DOMAIN ev /\ Len(ev["choices"]) > 0

RECURSIVE LStrip(_)
LStrip(s) == IF s # <<>> /\ Head(s) = " " THEN LStrip(Tail(s)) ELSE s

RECURSIVE RStrip(_)
RStrip(s) == IF s # <<>> /\ s[Len(s)] = " " THEN RStrip(SubSeq(s, 1, Len(s) - 1)) ELSE s

\* str.strip()
Strip(s) == RStrip(LStrip(s))

\* a clause catching BaseException
Catches_base(kind) == TRUE

\* the except clause of both handlers: `except Exception`; GeneratorExit,
\* thrown into a generator that is closed, is not an Exception
Catches(kind) == kind = "Exception"

----------------------------------------------------------------------------
(* Protocol chunks yielded by generate_stream_response *)

start_chunk(id, created, model) ==
    [id |-> id, created |-> created, model |-> model,
     object |-> "chat.completion.chunk",
     delta |-> [role |-> "assistant", content |-> <<>>],
     finish_reason |-> None]

\* the delta chunk stamped with the time it is sent
delta_chunk_now(id, created, model, text_content) ==
    [id |-> id, created |-> now, model |-> model,
     object |-> "chat.completion.chunk",
     delta |-> [content |-> text_content],
     finish_reason |-> None]

delta_chunk(id, created, model, text_content) ==
    [id |-> id, created |-> created, model |-> model,
     object |-> "chat.completion.chunk",
     delta |-> [content |-> text_content],
     finish_reason |-> None]

end_chunk(id, created, model, finish_reason) ==
    [id |-> id, created |-> created, model |-> model,
     object |-> "chat.completion.chunk",
     delta |-> <<>>,
     finish_reason |-> finish_reason]

\* the error chunk with a fixed text instead of str(e)
error_chunk_generic(message) ==
    [error |-> [message |-> "internal error", type |-> "internal_error"]]

error_chunk(message) == [error |-> [message |-> message, type |-> "internal_error"]]

done_chunk == [data |-> "[DONE]"]

\* the response with total_tokens read from the wrong key
response_total(completion, prompt, created) ==
    [status |-> 200,
     id |-> completion_id(prompt),
     created |-> created,
     model |-> basename(MODEL_PATH),
     object |-> "chat.completion",
     choices |-> <<[index |-> 0,
                    message |-> [role |-> "assistant",
                                 content |-> Strip(completion.choices[1].text)],
                    finish_reason |-> completion.choices[1].finish_reason]>>,
     usage |-> [prompt_tokens |-> completion.usage.prompt_tokens,
                completion_tokens |-> completion.usage.completion_tokens,
                total_tokens |-> completion.usage.completion_tokens]]

\* the response of the non-streaming path
response(completion, prompt, created) ==
    [status |-> 200,
     id |-> completion_id(prompt),
     created |-> created,
     model |-> basename(MODEL_PATH),
     object |-> "chat.completion",
     choices |-> <<[index |-> 0,
                    message |-> [role |-> "assistant",
                                 content |-> Strip(completion.choices[1].text)],
                    finish_reason |-> completion.choices[1].finish_reason]>>,
     usage |-> [prompt_tokens |-> completion.usage.prompt_tokens,
                completion_tokens |-> completion.usage.completion_tokens,
                total_tokens |-> completion.usage.total_tokens]]

\* the 500 response with a fixed detail
http_error_generic(message) == [status |-> 500, detail |-> "Internal Server Error"]

\* raise HTTPException(status_code=500, detail=str(e))
http_error(message) == [status |-> 500, detail |-> message]

----------------------------------------------------------------------------
(* Scheduling *)

\* requests with a backend call in progress
InFlight == {r \in Reqs : pc[r] \in {"ns_call", "pulling"}}

\* the event loop is held by the async handler that called the backend
LoopBusy == \E r \in Reqs : pc[r] = "ns_call"

\* generator positions that are suspended at a yield inside the try block
TryYields == {"at_start", "at_delta", "at_end", "at_done"}

Suspended == TryYields \cup {"at_error"}

----------------------------------------------------------------------------
\* the local variables of a handler before it has run
NoLocals ==
    [prompt |-> <<>>, completion_id |-> <<"chatcmpl-", 0>>, created_time |-> 0,
     model_name |-> ""]

NoRequest == [messages |-> <<>>, stream |-> FALSE, enable_chain_of_thought |-> FALSE]

Init ==
    /\ request = [r \in Reqs |-> NoRequest]
    /\ pc = [r \in Reqs |-> "idle"]
    /\ out = [r \in Reqs |-> <<>>]
    /\ pulled = [r \in Reqs |-> <<>>]
    /\ choice = [r \in Reqs |-> [index |-> 0]]
    /\ failure = [r \in Reqs |-> None]
    /\ resp = [r \in Reqs |-> [status |-> 0]]
    /\ disc = [r \in Reqs |-> FALSE]
    /\ calls = [r \in Reqs |-> 0]
    /\ locals = [r \in Reqs |-> NoLocals]
    /\ now = 0
    /\ health = [state |-> "idle", resp |-> [status |-> None]]

\* chat_completion with stream=true: hands the generator to StreamingResponse
StreamRequest(r, body) ==
    /\ pc[r] = "idle"
    /\ ~LoopBusy
    /\ request' = [request EXCEPT ![r] = [body EXCEPT !.stream = TRUE]]
    /\ pc' = [pc EXCEPT ![r] = "created"]
    /\ resp' = [resp EXCEPT ![r] = [status |-> 200]]
    /\ UNCHANGED <<out, pulled, choice, failure, disc, calls, locals, now, health>>

\* chat_completion with stream=false: calls model.create_completion
CompletionRequest(r, body) ==
    /\ pc[r] = "idle"
    /\ ~LoopBusy
    /\ request' = [request EXCEPT ![r] = [body EXCEPT !.stream = FALSE]]
    /\ locals' = [locals EXCEPT ![r].prompt =
                    create_prompt(body.messages, body.enable_chain_of_thought)]
    /\ pc' = [pc EXCEPT ![r] = "ns_call"]
    /\ calls' = [calls EXCEPT ![r] = @ + 1]
    /\ UNCHANGED <<out, pulled, choice, failure, resp, disc, now, health>>

\* the call returns a completion: the response is assembled and returned
CompletionReturn(r, completion) ==
    /\ pc[r] = "ns_call"
    /\ resp' = [resp EXCEPT ![r] = response(completion, locals[r].prompt, now)]
    /\ pc' = [pc EXCEPT ![r] = "responded"]
    /\ UNCHANGED <<request, out, pulled, choice, failure, disc, calls, locals, now, health>>

\* the call raises: except Exception -> HTTPException(500)
CompletionRaise(r, m) ==
    /\ pc[r] = "ns_call"
    /\ failure' = [failure EXCEPT ![r] = m]
    /\ resp' = [resp EXCEPT ![r] =
                  IF Catches("Exception") THEN http_error(m) ELSE [status |-> 0]]
    /\ pc' = [pc EXCEPT ![r] = "responded"]
    /\ UNCHANGED <<request, out, pulled, choice, disc, calls, locals, now, health>>

\* the locals generate_stream_response computes once on entry
entry_locals(req) ==
    LET prompt == create_prompt(req.messages, req.enable_chain_of_thought)
    IN  [prompt |-> prompt, completion_id |-> completion_id(prompt),
         created_time |-> now, model_name |-> basename(MODEL_PATH)]

\* first next() of the generator: the stream is created, Start is yielded
GenStart(r) ==
    /\ pc[r] = "created"
    /\ ~disc[r]
    /\ ~LoopBusy
    /\ calls' = [calls EXCEPT ![r] = @ + 1]
    /\ locals' = [locals EXCEPT ![r] = entry_locals(request[r])]
    /\ out' = [out EXCEPT ![r] =
                 Append(@, start_chunk(locals'[r].completion_id, locals'[r].created_time,
                                       locals'[r].model_name))]
    /\ pc' = [pc EXCEPT ![r] = "at_start"]
    /\ UNCHANGED <<request, pulled, choice, failure, resp, disc, now, health>>

\* first next() of the generator: model.create_completion raises
GenStartRaise(r, m) ==
    /\ pc[r] = "created"
    /\ ~disc[r]
    /\ ~LoopBusy
    /\ calls' = [calls EXCEPT ![r] = @ + 1]
    /\ failure' = [failure EXCEPT ![r] = m]
    /\ IF Catches("Exception")
       THEN /\ out' = [out EXCEPT ![r] = Append(@, error_chunk(m))]
            /\ pc' = [pc EXCEPT ![r] = "at_error"]
       ELSE /\ out' = out
            /\ pc' = [pc EXCEPT ![r] = "finished"]
    /\ locals' = [locals EXCEPT ![r] = entry_locals(request[r])]
    /\ UNCHANGED <<request, pulled, choice, resp, disc, now, health>>

\* the generator without the `break` after the End chunk
Resume_nobreak(r) ==
    /\ pc[r] \in Suspended
    /\ ~disc[r]
    /\ ~LoopBusy
    /\ CASE pc[r] \in {"at_start", "at_end"} ->
              /\ pc' = [pc EXCEPT ![r] = "pulling"]
              /\ out' = out
         [] pc[r] = "at_delta" ->
              IF Truthy(Get(choice[r], "finish_reason"))
              THEN /\ out' = [out EXCEPT ![r] = Append(@, end_chunk(locals[r].completion_id, locals[r].created_time,
                                                 locals[r].model_name, choice[r]["finish_reason"]))]
                   /\ pc' = [pc EXCEPT ![r] = "at_end"]
              ELSE /\ out' = out
                   /\ pc' = [pc EXCEPT ![r] = "pulling"]
         [] pc[r] \in {"at_done", "at_error"} ->
              /\ pc' = [pc EXCEPT ![r] = "finished"]
              /\ out' = out
    /\ UNCHANGED <<request, pulled, choice, failure, resp, disc, calls, locals, now, health>>

\* the consumer resumes the generator suspended at a yield
Resume(r) ==
    /\ pc[r] \in Suspended
    /\ ~disc[r]
    /\ ~LoopBusy
    /\ CASE pc[r] = "at_start" ->
              /\ pc' = [pc EXCEPT ![r] = "pulling"]
              /\ out' = out
         [] pc[r] = "at_delta" ->
              IF Truthy(Get(choice[r], "finish_reason"))
              THEN /\ out' = [out EXCEPT ![r] = Append(@, end_chunk(locals[r].completion_id, locals[r].created_time,
                                                 locals[r].model_name, choice[r]["finish_reason"]))]
                   /\ pc' = [pc EXCEPT ![r] = "at_end"]
              ELSE /\ out' = out
                   /\ pc' = [pc EXCEPT ![r] = "pulling"]
         [] pc[r] = "at_end" ->
              /\ out' = [out EXCEPT ![r] = Append(@, done_chunk)]
              /\ pc' = [pc EXCEPT ![r] = "at_done"]
         [] pc[r] \in {"at_done", "at_error"} ->
              /\ pc' = [pc EXCEPT ![r] = "finished"]
              /\ out' = out
    /\ UNCHANGED <<request, pulled, choice, failure, resp, disc, calls, locals, now, health>>

\* the loop body testing finish_reason first and leaving the loop at once
PullEvent_finishfirst(r, ev) ==
    /\ pc[r] = "pulling"
    /\ Len(pulled[r]) < MaxPulls
    /\ pulled' = [pulled EXCEPT ![r] = Append(@, ev)]
    /\ IF HasChoices(ev)
       THEN LET c == ev["choices"][1] IN
            /\ choice' = [choice EXCEPT ![r] = c]
            /\ IF Truthy(Get(c, "finish_reason"))
               THEN /\ out' = [out EXCEPT ![r] = Append(@, end_chunk(locals[r].completion_id, locals[r].created_time,
                                                       locals[r].model_name, c["finish_reason"]))]
                    /\ pc' = [pc EXCEPT ![r] = "at_end"]
               ELSE IF HasText(c)
                    THEN /\ out' = [out EXCEPT ![r] = Append(@, delta_chunk(locals[r].completion_id, locals[r].created_time,
                                                              locals[r].model_name, c["text"]))]
                         /\ pc' = [pc EXCEPT ![r] = "at_delta"]
                    ELSE UNCHANGED <<out, pc>>
       ELSE UNCHANGED <<choice, out, pc>>
    /\ UNCHANGED <<request, failure, resp, disc, calls, locals, now, health>>

\* the body of `for chunk in stream` for one pulled chunk, up to the next
\* yield or the next pull
PullEvent(r, ev) ==
    /\ pc[r] = "pulling"
    /\ Len(pulled[r]) < MaxPulls
    /\ pulled' = [pulled EXCEPT ![r] = Append(@, ev)]
    /\ IF HasChoices(ev)
       THEN LET c == ev["choices"][1] IN
            /\ choice' = [choice EXCEPT ![r] = c]
            /\ IF HasText(c)
               THEN /\ out' = [out EXCEPT ![r] = Append(@, delta_chunk(locals[r].completion_id, locals[r].created_time,
                                                         locals[r].model_name, c["text"]))]
                    /\ pc' = [pc EXCEPT ![r] = "at_delta"]
               ELSE IF Truthy(Get(c, "finish_reason"))
                    THEN /\ out' = [out EXCEPT ![r] = Append(@, end_chunk(locals[r].completion_id, locals[r].created_time,
                                                            locals[r].model_name, c["finish_reason"]))]
                         /\ pc' = [pc EXCEPT ![r] = "at_end"]
                    ELSE UNCHANGED <<out, pc>>
       ELSE UNCHANGED <<choice, out, pc>>
    /\ UNCHANGED <<request, failure, resp, disc, calls, locals, now, health>>

\* the exhausted sequence answered with an End chunk of its own
PullExhausted_end(r) ==
    /\ pc[r] = "pulling"
    /\ out' = [out EXCEPT ![r] = Append(@, end_chunk(locals[r].completion_id, locals[r].created_time,
                                                    locals[r].model_name, "stop"))]
    /\ pc' = [pc EXCEPT ![r] = "at_end"]
    /\ UNCHANGED <<request, pulled, choice, failure, resp, disc, calls, locals, now, health>>

\* the generation sequence is exhausted: the loop ends, [DONE] is yielded
PullExhausted(r) ==
    /\ pc[r] = "pulling"
    /\ out' = [out EXCEPT ![r] = Append(@, done_chunk)]
    /\ pc' = [pc EXCEPT ![r] = "at_done"]
    /\ UNCHANGED <<request, pulled, choice, failure, resp, disc, calls, locals, now, health>>

\* the pull raises: the except clause yields the error chunk
PullRaise(r, m) ==
    /\ pc[r] = "pulling"
    /\ failure' = [failure EXCEPT ![r] = m]
    /\ IF Catches("Exception")
       THEN /\ out' = [out EXCEPT ![r] = Append(@, error_chunk(m))]
            /\ pc' = [pc EXCEPT ![r] = "at_error"]
       ELSE /\ out' = out
            /\ pc' = [pc EXCEPT ![r] = "finished"]
    /\ UNCHANGED <<request, pulled, choice, resp, disc, calls, locals, now, health>>

\* the client of a streaming response goes away
Disconnect(r) ==
    /\ pc[r] \in {"created", "pulling"} \cup Suspended
    /\ ~disc[r]
    /\ disc' = [disc EXCEPT ![r] = TRUE]
    /\ UNCHANGED <<request, pc, out, pulled, choice, failure, resp, calls, locals, now, health>>

\* the consumer drops the generator: GeneratorExit is thrown at the yield the
\* generator is suspended at
GenClose(r) ==
    /\ pc[r] \in {"created"} \cup Suspended
    /\ disc[r]
    /\ IF pc[r] \in TryYields /\ Catches("GeneratorExit")
       THEN /\ out' = [out EXCEPT ![r] = Append(@, error_chunk(""))]
            /\ pc' = [pc EXCEPT ![r] = "at_error"]
       ELSE /\ out' = out
            /\ pc' = [pc EXCEPT ![r] = "closed"]
    /\ UNCHANGED <<request, pulled, choice, failure, resp, disc, calls, locals, now, health>>

\* time passes
Tick ==
    /\ now < MaxClock
    /\ now' = now + 1
    /\ UNCHANGED <<request, pc, out, pulled, choice, failure, resp, disc, calls, locals, health>>

\* the prompt is built from the request (first statement of either path)
CreatePrompt(r) ==
    /\ pc[r] = "idle"
    /\ locals' = [locals EXCEPT ![r].prompt =
                    create_prompt(request[r].messages, request[r].enable_chain_of_thought)]
    /\ pc' = [pc EXCEPT ![r] = "prompted"]
    /\ UNCHANGED <<request, out, pulled, choice, failure, resp, disc, calls, now, health>>

\* a client sends GET /health
HealthRequest ==
    /\ health.state \in {"idle", "served"}
    /\ health' = [state |-> "pending", resp |-> [status |-> None]]
    /\ UNCHANGED <<request, pc, out, pulled, choice, failure, resp, disc, calls, locals, now>>

\* health_check runs on the event loop and answers
HealthCheck ==
    /\ health.state = "pending"
    /\ ~LoopBusy
    /\ health' = [state |-> "served",
                  resp |-> [status |-> "ok", model |-> basename(MODEL_PATH)]]
    /\ UNCHANGED <<request, pc, out, pulled, choice, failure, resp, disc, calls, locals, now>>

Step(r, E, K, B) ==
    \/ \E body \in B : StreamRequest(r, body)
    \/ \E body \in B : CompletionRequest(r, body)
    \/ \E completion \in K : CompletionReturn(r, completion)
    \/ \E m \in Msgs : CompletionRaise(r, m)
    \/ GenStart(r)
    \/ \E m \in Msgs : GenStartRaise(r, m)
    \/ Resume(r)
    \/ \E ev \in E : PullEvent(r, ev)
    \/ PullExhausted(r)
    \/ \E m \in Msgs : PullRaise(r, m)
    \/ Disconnect(r)
    \/ GenClose(r)

\* one request, every backend behaviour
Next ==
    \/ Tick
    \/ HealthRequest
    \/ HealthCheck
    \/ \E r \in FramerReqs : Step(r, Events, Completions, Bodies)

Spec == Init /\ [][Next]_vars

\* the prompt builder alone, over every request body
InitPrompt ==
    /\ \E body \in AllBodies :
          request = [r \in Reqs |-> IF r \in FramerReqs THEN body ELSE NoRequest]
    /\ pc = [r \in Reqs |-> "idle"]
    /\ out = [r \in Reqs |-> <<>>]
    /\ pulled = [r \in Reqs |-> <<>>]
    /\ choice = [r \in Reqs |-> [index |-> 0]]
    /\ failure = [r \in Reqs |-> None]
    /\ resp = [r \in Reqs |-> [status |-> 0]]
    /\ disc = [r \in Reqs |-> FALSE]
    /\ calls = [r \in Reqs |-> 0]
    /\ locals = [r \in Reqs |-> NoLocals]
    /\ now = 0
    /\ health = [state |-> "idle", resp |-> [status |-> None]]

NextPrompt == \E r \in FramerReqs : CreatePrompt(r)

SpecPrompt == InitPrompt /\ [][NextPrompt]_vars

\* several requests side by side
NextSrv == \E r \in Reqs : Step(r, SrvEvents, SrvCompletions, SrvBodies)

SpecSrv == Init /\ [][NextSrv]_vars

----------------------------------------------------------------------------
(* The stream as the client reads it *)

IsStart(c) == "delta" \in DOMAIN c /\ "role" \in DOMAIN c.delta
IsDelta(c) == "delta" \in DOMAIN c /\ "role" \notin DOMAIN c.delta
                                   /\ "content" \in DOMAIN c.delta
IsEnd(c) == "delta" \in DOMAIN c /\ c.finish_reason # None
IsError(c) == "error" \in DOMAIN c
IsDone(c) == "data" \in DOMAIN c /\ c.data = "[DONE]"

Starts(s) == SelectSeq(s, IsStart)
Deltas(s) == SelectSeq(s, IsDelta)
Ends(s) == SelectSeq(s, IsEnd)
Errors(s) == SelectSeq(s, IsError)
Dones(s) == SelectSeq(s, IsDone)

\* Start, Delta*, (End | Error), [DONE]
Shape(s) ==
    /\ Len(s) >= 3
    /\ IsStart(s[1])
    /\ \A i \in 2..(Len(s) - 2) : IsDelta(s[i])
    /\ IsEnd(s[Len(s) - 1]) \/ IsError(s[Len(s) - 1])
    /\ IsDone(s[Len(s)])

\* what a backend event carries
EvChoice(ev) ==
    IF "choices" \in DOMAIN ev /\ ev.choices # <<>> THEN ev.choices[1] ELSE [index |-> 0]
EvText(ev) == IF "text" \in DOMAIN EvChoice(ev) THEN EvChoice(ev).text ELSE <<>>
EvFinish(ev) ==
    IF "finish_reason" \in DOMAIN EvChoice(ev) THEN EvChoice(ev).finish_reason ELSE None
Finishing(ev) == EvFinish(ev) \notin {None, ""}
Texted(ev) == EvText(ev) # <<>>

RECURSIVE Flatten(_)
Flatten(ss) == IF ss = <<>> THEN <<>> ELSE Head(ss) \o Flatten(Tail(ss))

DeltaContents(s) == [i \in 1..Len(Deltas(s)) |-> Deltas(s)[i].delta.content]
PulledTexts(p) == [i \in 1..Len(SelectSeq(p, Texted)) |-> EvText(SelectSeq(p, Texted)[i])]

Streaming(r) == pc[r] # "idle" /\ request[r].stream
NonStreaming(r) == pc[r] # "idle" /\ ~request[r].stream

----------------------------------------------------------------------------
(* Claims *)

\* C1: the chunk sequence of every streaming request that ran to its end is
\* one Start, zero or more Delta, exactly one End or Error, one [DONE].
C1_ChunkShape ==
    \A r \in Reqs : (Streaming(r) /\ pc[r] = "finished") => Shape(out[r])

\* C2: every stream that ran to its end has exactly one [DONE] chunk and it
\* is the last chunk, after an End chunk as well as after an Error chunk.
C2_TerminatorLast ==
    \A r \in Reqs : (Streaming(r) /\ pc[r] = "finished") =>
        /\ out[r] # <<>>
        /\ IsDone(out[r][Len(out[r])])
        /\ Len(Dones(out[r])) = 1

\* C3: once the backend has failed in a streaming request (at creation or at
\* any pull), the stream holds exactly one Error chunk, which carries the
\* failure's message with type internal_error, and holds no End chunk.
C3_FailureYieldsOneError ==
    \A r \in Reqs : (Streaming(r) /\ failure[r] # None) =>
        /\ Len(Errors(out[r])) = 1
        /\ Errors(out[r])[1].error = [message |-> failure[r], type |-> "internal_error"]
        /\ Ends(out[r]) = <<>>

C3_Witness ==
    \E r \in Reqs : /\ Streaming(r) /\ failure[r] # None /\ pc[r] = "finished"
                    /\ Len(pulled[r]) >= 1 /\ Len(Deltas(out[r])) >= 1

\* C4: a stream that has emitted anything starts with a Start chunk and holds
\* exactly one Start chunk, also when the backend failed before any event.
C4_StartFirst ==
    \A r \in Reqs : (Streaming(r) /\ out[r] # <<>>) =>
        /\ IsStart(out[r][1])
        /\ Len(Starts(out[r])) = 1

\* C5: an event carrying a finish_reason is the last event pulled; at most
\* one End chunk is emitted, it carries that finish_reason and no Delta
\* follows it; once the generator has been resumed past that event the End
\* chunk is there.
C5_FinishEndsStream ==
    \A r \in Reqs : \A k \in 1..Len(pulled[r]) : Finishing(pulled[r][k]) =>
        /\ k = Len(pulled[r])
        /\ pc[r] # "pulling"
        /\ Len(Ends(out[r])) <= 1
        /\ \A i \in 1..Len(out[r]) : IsEnd(out[r][i]) =>
              /\ out[r][i].finish_reason = EvFinish(pulled[r][k])
              /\ \A j \in (i + 1)..Len(out[r]) : ~IsDelta(out[r][j])
        /\ pc[r] \in {"at_end", "at_done", "finished"} => Len(Ends(out[r])) = 1

C5_Witness ==
    \E r \in Reqs : /\ pc[r] = "finished" /\ Len(pulled[r]) = 2
                    /\ Finishing(pulled[r][2]) /\ Texted(pulled[r][2])
                    /\ EvFinish(pulled[r][2]) = "length"

\* C6: the Delta chunks of a stream are, one for one and in pull order, the
\* non-empty text fragments of the events pulled so far; so in a stream ended
\* by an End chunk the concatenated Delta contents equal the concatenated
\* fragments of all pulled events.
C6_DeltasAreFragments ==
    \A r \in Reqs :
        /\ DeltaContents(out[r]) = PulledTexts(pulled[r])
        /\ (pc[r] = "finished" /\ Ends(out[r]) # <<>>) =>
              Flatten(DeltaContents(out[r])) =
                  Flatten([i \in 1..Len(pulled[r]) |-> EvText(pulled[r][i])])

C6_Witness ==
    \E r \in Reqs : /\ pc[r] = "finished" /\ Ends(out[r]) # <<>>
                    /\ Len(Deltas(out[r])) = 2
                    /\ DeltaContents(out[r])[1] # DeltaContents(out[r])[2]

\* C7: at most one backend call (a non-streaming create_completion or a pull
\* from a generation sequence) is in progress at any time.
C7_Serialized == Cardinality(InFlight) <= 1

\* C8: once the consumer has seen the client of a stream gone (the generator
\* is suspended or closed and the client is disconnected), that request pulls
\* no further event, emits no further chunk and holds no backend call.
C8_QuietAfterDisconnect ==
    [][\A r \in Reqs :
          (disc[r] /\ pc[r] \in {"created", "closed"} \cup Suspended) =>
              /\ pulled'[r] = pulled[r]
              /\ out'[r] = out[r]
              /\ pc'[r] \notin {"pulling", "ns_call"}]_vars

C8_Witness ==
    \E r, q \in Reqs : /\ r # q /\ pc[r] = "closed" /\ Len(Deltas(out[r])) >= 1
                       /\ Dones(out[r]) = <<>> /\ pc[q] = "pulling"

C10_FailureIs500 ==
    \A r \in Reqs : (NonStreaming(r) /\ failure[r] # None) =>
        /\ resp[r] = [status |-> 500, detail |-> failure[r]]
        /\ calls[r] = 1
        /\ pc[r] = "responded"

C10_Witness ==
    \E r \in Reqs : NonStreaming(r) /\ failure[r] = "bad stop" /\ pc[r] = "responded"

IsData(c) == IsStart(c) \/ IsDelta(c) \/ IsEnd(c)

\* the id, timestamp and model name a chunk is tagged with
Tag(c) == <<c.id, c.created, c.model>>

\* C11 as stated: every Start, Delta, End and Error chunk of a stream carries
\* the id, timestamp and model name computed at entry.
C11_AllChunksTagged ==
    \A r \in Reqs : \A i \in 1..Len(out[r]) :
        (IsData(out[r][i]) \/ IsError(out[r][i])) =>
            /\ {"id", "created", "model"} \subseteq DOMAIN out[r][i]
            /\ Tag(out[r][i]) = <<locals[r].completion_id, locals[r].created_time,
                                  locals[r].model_name>>

\* C11 amended: every Start, Delta and End chunk of a stream carries the id
\* (derived from the request's prompt), the timestamp and the model name that
\* were computed at entry, the same in all of them however late they are
\* sent; the Error chunk carries only its message and type.
C11_DataChunksTagged ==
    \A r \in Reqs : \A i \in 1..Len(out[r]) :
        /\ IsData(out[r][i]) =>
              /\ Tag(out[r][i]) = Tag(out[r][1])
              /\ Tag(out[r][i]) = <<locals[r].completion_id, locals[r].created_time,
                                    locals[r].model_name>>
              /\ out[r][i].id = completion_id(create_prompt(request[r].messages,
                                                  request[r].enable_chain_of_thought))
              /\ out[r][i].model = "deepseek-llm-7b-chat.Q4_K_M.gguf"
        /\ IsError(out[r][i]) => DOMAIN out[r][i] = {"error"}

C11_Witness ==
    \E r \in Reqs : /\ pc[r] = "finished" /\ Len(Deltas(out[r])) >= 1 /\ Ends(out[r]) # <<>>
                    /\ now > locals[r].created_time
                    /\ request[r].messages # <<>>

\* C12: a pending GET /health can be answered at once whatever the completion
\* requests are doing: no running generation and no open stream holds it
\* back.
C12_HealthNotBlocked == health.state = "pending" => ENABLED HealthCheck

----------------------------------------------------------------------------
(* The prompt as the format describes it *)

Recognized(message) == message.role \in {"system", "user", "assistant"}

OpenTag(role) ==
    CASE role = "system" -> "<|system|>\n"
      [] role = "user" -> "<|user|>\n"
      [] role = "assistant" -> "<|assistant|>\n"

\* one block per recognized message, in order, then the assistant tag
ExpectedPrompt(messages) ==
    LET kept == SelectSeq(messages, Recognized)
    IN  Flatten([i \in 1..Len(kept) |-> <<OpenTag(kept[i].role), kept[i].content, "</s>\n">>])
            \o <<"<|assistant|>\n">>

Prompted(r) == pc[r] = "prompted"

\* C13: the prompt is the blocks of the system, user and assistant messages
\* in their original order followed by the assistant tag (and then by the
\* priming phrase when asked for); messages of any other role add nothing.
C13_PromptIsBlocks ==
    \A r \in Reqs : Prompted(r) =>
        LET expected == ExpectedPrompt(request[r].messages)
            prompt == locals[r].prompt
        IN  /\ Len(prompt) = Len(expected) + (IF request[r].enable_chain_of_thought THEN 1 ELSE 0)
            /\ SubSeq(prompt, 1, Len(expected)) = expected

C13_Witness ==
    \E r \in Reqs : /\ Prompted(r) /\ Len(request[r].messages) = 2
                    /\ request[r].messages[1].role = "tool"
                    /\ request[r].messages[2].role = "system"

\* C14: for an empty message list the prompt is exactly the assistant tag,
\* followed by the priming phrase if and only if enable_cot is true.
C14_EmptyMessages ==
    \A r \in Reqs : (Prompted(r) /\ request[r].messages = <<>>) =>
        locals[r].prompt = IF request[r].enable_chain_of_thought
                           THEN <<"<|assistant|>\n", "Let me think.\n\n">>
                           ELSE <<"<|assistant|>\n">>

C14_Witness ==
    \E r \in Reqs : /\ Prompted(r) /\ request[r].messages = <<>>
                    /\ request[r].enable_chain_of_thought

\* C15: with enable_chain_of_thought the prompt ends with the assistant tag
\* immediately followed by the priming phrase; without it the prompt ends
\* with the assistant tag.
C15_CotAfterAssistantTag ==
    \A r \in Reqs : Prompted(r) =>
        LET prompt == locals[r].prompt
            n == Len(locals[r].prompt)
        IN  IF request[r].enable_chain_of_thought
            THEN /\ n >= 2
                 /\ prompt[n] = "Let me think.\n\n"
                 /\ prompt[n - 1] = "<|assistant|>\n"
            ELSE /\ n >= 1
                 /\ prompt[n] = "<|assistant|>\n"

C15_Witness ==
    \E r \in Reqs : /\ Prompted(r) /\ request[r].enable_chain_of_thought
                    /\ Len(request[r].messages) = 2
                    /\ request[r].messages[2].role = "user"

----------------------------------------------------------------------------
IsTerminal(c) == IsEnd(c) \/ IsError(c)

Silent(ev) == ~Texted(ev) /\ ~Finishing(ev)

LastPulled(r) == pulled[r][Len(pulled[r])]

\* C16: a stream never holds more than one terminal chunk (End or Error) and
\* never a Delta chunk after a terminal chunk.
C16_OneTerminal ==
    \A r \in Reqs :
        /\ Len(SelectSeq(out[r], IsTerminal)) <= 1
        /\ \A i \in 1..Len(out[r]) : IsTerminal(out[r][i]) =>
              \A j \in (i + 1)..Len(out[r]) : ~IsDelta(out[r][j])

C16_Witness ==
    \E r \in Reqs : /\ pc[r] = "at_done" /\ Len(pulled[r]) >= 1
                    /\ Len(SelectSeq(out[r], IsTerminal)) = 1

\* C17: pulling an event that has no choices, or whose first choice has an
\* empty or missing text and no finish_reason, adds no chunk to the stream
\* and leaves the framer pulling the next event.
C17_SilentEvent ==
    [][\A r \in Reqs :
          (Len(pulled'[r]) = Len(pulled[r]) + 1 /\ Silent(pulled'[r][Len(pulled'[r])])) =>
              /\ out'[r] = out[r]
              /\ pc'[r] = "pulling"]_vars

C17_Witness ==
    \E r \in Reqs : /\ Len(pulled[r]) = 2
                    /\ Silent(pulled[r][1]) /\ "text" \in DOMAIN EvChoice(pulled[r][1])
                    /\ Texted(pulled[r][2])
                    /\ Len(Deltas(out[r])) = 1

\* C18: when the last pulled event carries both a non-empty text and a
\* finish_reason, its Delta chunk is in the stream, and the End chunk, once
\* emitted, comes immediately after that Delta chunk.
C18_DeltaThenEnd ==
    \A r \in Reqs :
        (pulled[r] # <<>> /\ Texted(LastPulled(r)) /\ Finishing(LastPulled(r))) =>
            /\ Deltas(out[r]) # <<>>
            /\ Deltas(out[r])[Len(Deltas(out[r]))].delta.content = EvText(LastPulled(r))
            /\ \A i \in 1..Len(out[r]) : IsEnd(out[r][i]) =>
                  /\ i > 1
                  /\ IsDelta(out[r][i - 1])
                  /\ out[r][i - 1].delta.content = EvText(LastPulled(r))
            /\ pc[r] = "at_delta" => Ends(out[r]) = <<>>
            /\ pc[r] \in {"at_end", "at_done", "finished"} => Len(Ends(out[r])) = 1

C18_Witness ==
    \E r \in Reqs : /\ pulled[r] # <<>> /\ Texted(LastPulled(r)) /\ Finishing(LastPulled(r))
                    /\ pc[r] = "at_end"

NoFinish(r) == \A k \in 1..Len(pulled[r]) : ~Finishing(pulled[r][k])

\* C19: when the generation sequence ran out without a failure and without a
\* finish_reason, the stream is the Start chunk, the Delta chunks and then
\* [DONE], with no End chunk and no Error chunk.
C19_ExhaustedNoEnd ==
    \A r \in Reqs :
        (pc[r] \in {"at_done", "finished"} /\ failure[r] = None /\ NoFinish(r)) =>
            /\ Len(out[r]) = Len(Deltas(out[r])) + 2
            /\ IsStart(out[r][1])
            /\ \A i \in 2..(Len(out[r]) - 1) : IsDelta(out[r][i])
            /\ IsDone(out[r][Len(out[r])])
            /\ Ends(out[r]) = <<>>
            /\ Errors(out[r]) = <<>>

C19_Witness ==
    \E r \in Reqs : /\ pc[r] = "finished" /\ failure[r] = None /\ NoFinish(r)
                    /\ Len(pulled[r]) = 2 /\ Len(Deltas(out[r])) >= 1

====
